---------------------------- MODULE Spec2Model ----------------------------
(***************************************************************************)
(* A model of main.py: the record validator (class Validator), the error  *)
(* summary (show_summary), the dump of the valid records (save_in_json)    *)
(* and the script that runs them.                                          *)
(*                                                                         *)
(* Text is a sequence of characters.  A character is written as a one-     *)
(* character string; the characters the module's notation cannot write     *)
(* are named: "cyr_ya" is U+044F, "cyr_yo" is U+0451 (outside the range    *)
(* U+0430..U+044F), "arab_3" is U+0663 (a decimal digit that is not ASCII).*)
(***************************************************************************)
EXTENDS Integers, Sequences, FiniteSets, TLC

VARIABLES pc, data, output_file, entries, illegal_entries, legal_entries,
          all_errors_count, errors_count, stdout, summary_file, valid_file,
          err, arg, ret

vars == <<pc, data, output_file, entries, illegal_entries, legal_entries,
          all_errors_count, errors_count, stdout, summary_file, valid_file,
          err, arg, ret>>

(***************************************************************************)
(* Bounds of the model.                                                    *)
(***************************************************************************)
MaxLen == 2
MaxNumLen == 3
MaxEmailLen == 7
MaxAddrLen == 4

(***************************************************************************)
(* Characters and the classes of Python's re module on str patterns.      *)
(***************************************************************************)
AsciiDigits == {"0", "1", "2", "3", "4", "5", "6", "7", "8", "9"}
LatinLower == {"a", "b", "c", "o"}
LatinUpper == {"Z"}
CyrRange == {"cyr_ya"}
CyrOutside == {"cyr_yo"}

\* \s on a str pattern
IsSpace(c) == c \in {" ", "\t", "\n", "\r", "\f"}

\* \d on a str pattern: every Unicode decimal digit
IsDigit(c) == c \in AsciiDigits \cup {"arab_3"}

\* \w on a str pattern: every Unicode letter or digit, and the underscore
IsWord(c) ==
    \/ IsDigit(c)
    \/ c \in LatinLower \cup LatinUpper \cup CyrRange \cup CyrOutside
    \/ c = "_"

DigitVal(c) ==
    CASE c = "0" -> 0 [] c = "1" -> 1 [] c = "2" -> 2 [] c = "3" -> 3
      [] c = "4" -> 4 [] c = "5" -> 5 [] c = "6" -> 6 [] c = "7" -> 7
      [] c = "8" -> 8 [] c = "9" -> 9 [] c = "arab_3" -> 3

\* a bracket expression: the characters and ranges it lists, the classes
\* (\s, \w, \d) it names, and whether it is negated
InClass(c, cls) ==
    LET in == \/ c \in cls.chars
              \/ ("s" \in cls.cats /\ IsSpace(c))
              \/ ("w" \in cls.cats /\ IsWord(c))
              \/ ("d" \in cls.cats /\ IsDigit(c))
    IN  IF cls.neg THEN ~in ELSE in

Class(neg, chars, cats) == [neg |-> neg, chars |-> chars, cats |-> cats]

(***************************************************************************)
(* Regular expressions: a character of a class, a concatenation, a         *)
(* repetition {min,max} (max = -1: unbounded).  Ends(r, s, I) is the set   *)
(* of positions where a match of r that starts at a position of I can end. *)
(***************************************************************************)
Chr(cls) == [t |-> "chr", cls |-> cls]
Cat(rs) == [t |-> "cat", rs |-> rs]
Rep(r, min, max) == [t |-> "rep", r |-> r, min |-> min, max |-> max]
Plus(r) == Rep(r, 1, -1)
Star(r) == Rep(r, 0, -1)

RECURSIVE Ends(_, _, _), CatEnds(_, _, _, _), RepEnds(_, _, _, _, _)
Ends(r, s, I) ==
    CASE r.t = "chr" ->
            {i + 1 : i \in {j \in I : j <= Len(s) /\ InClass(s[j], r.cls)}}
      [] r.t = "cat" -> CatEnds(r.rs, 1, s, I)
      [] r.t = "rep" -> RepEnds(r.r, r.min, r.max, s, I)

CatEnds(rs, k, s, I) ==
    IF k > Len(rs) THEN I ELSE CatEnds(rs, k + 1, s, Ends(rs[k], s, I))

RepEnds(r, min, max, s, I) ==
    IF I = {} THEN {}
    ELSE IF min > 0
         THEN RepEnds(r, min - 1, IF max < 0 THEN max ELSE max - 1, s,
                      Ends(r, s, I))
    ELSE IF max = 0 THEN I
    ELSE I \cup RepEnds(r, 0, IF max < 0 THEN max ELSE max - 1, s,
                        Ends(r, s, I))

\* re.match(pattern, s) for a pattern "^body$": without re.MULTILINE, $
\* matches at the end of the string and just before a newline that ends it
ReMatch(body, s) ==
    LET E == Ends(body, s, {1})
    IN  \/ Len(s) + 1 \in E
        \/ Len(s) >= 1 /\ s[Len(s)] = "\n" /\ Len(s) \in E

(***************************************************************************)
(* int(x) of a str: surrounding whitespace is stripped, a sign may lead,  *)
(* the digits may be grouped by single underscores.                        *)
(***************************************************************************)
RECURSIVE LStrip(_)
LStrip(s) == IF s # <<>> /\ IsSpace(Head(s)) THEN LStrip(Tail(s)) ELSE s

RECURSIVE RStrip(_)
RStrip(s) ==
    IF s # <<>> /\ IsSpace(s[Len(s)])
    THEN RStrip(SubSeq(s, 1, Len(s) - 1)) ELSE s

RECURSIVE DigitsValue(_, _)
DigitsValue(s, acc) ==
    IF s = <<>> THEN acc
    ELSE IF Head(s) = "_" THEN DigitsValue(Tail(s), acc)
    ELSE DigitsValue(Tail(s), 10 * acc + DigitVal(Head(s)))

PyInt(s) ==
    LET t == RStrip(LStrip(s))
        signed == t # <<>> /\ Head(t) \in {"+", "-"}
        d == IF signed THEN Tail(t) ELSE t
        wellFormed ==
            /\ d # <<>>
            /\ \A i \in 1..Len(d) : IsDigit(d[i]) \/ d[i] = "_"
            /\ IsDigit(d[1]) /\ IsDigit(d[Len(d)])
            /\ \A i \in 1..(Len(d) - 1) : ~(d[i] = "_" /\ d[i + 1] = "_")
        v == DigitsValue(d, 0)
    IN  IF wellFormed
        THEN [ok |-> TRUE, val |-> IF signed /\ Head(t) = "-" THEN 0 - v ELSE v]
        ELSE [ok |-> FALSE, val |-> 0]

(***************************************************************************)
(* Field values.  A value of the input mapping is a str or, for the fields *)
(* json.load reads as numbers, an int.                                     *)
(***************************************************************************)
Str(s) == [kind |-> "str", chars |-> s, n |-> 0]
IntV(n) == [kind |-> "int", chars |-> <<>>, n |-> n]

\* int(x): of an int, the int itself; of a str, its parse or ValueError
ToInt(x) == IF x.kind = "int" THEN [ok |-> TRUE, val |-> x.n] ELSE PyInt(x.chars)

(***************************************************************************)
(* The patterns of the field checks.                                       *)
(***************************************************************************)
EmailPattern ==
    Cat(<<Plus(Chr(Class(TRUE, {"@"}, {"s"}))),
          Chr(Class(FALSE, {"@"}, {})),
          Plus(Cat(<<Plus(Chr(Class(TRUE, {"@", ".", ","}, {"s"}))),
                     Chr(Class(FALSE, {"."}, {}))>>)),
          Rep(Chr(Class(TRUE, {"@", ".", ","}, {"s"})), 2, -1)>>)

InnPattern == Rep(Chr(Class(FALSE, {}, {"d"})), 12, 12)

PassportPattern ==
    Cat(<<Rep(Chr(Class(FALSE, {}, {"d"})), 2, 2),
          Chr(Class(FALSE, {" "}, {})),
          Rep(Chr(Class(FALSE, {}, {"d"})), 2, 2)>>)

AddressPattern ==
    Cat(<<Star(Chr(Class(FALSE, CyrRange \cup {".", "-"}, {"w", "s", "d"}))),
          Chr(Class(FALSE, {" "}, {})),
          Plus(Chr(Class(FALSE, {}, {"d"})))>>)

NamePattern ==
    Plus(Chr(Class(FALSE,
                   LatinLower \cup LatinUpper \cup CyrRange \cup {" ", "-"},
                   {})))

(***************************************************************************)
(* Validator.check_*                                                       *)
(***************************************************************************)
check_email(email) == ReMatch(EmailPattern, email.chars)

check_inn(inn) == ReMatch(InnPattern, inn.chars)

check_passport(passport) == ReMatch(PassportPattern, passport.chars)

check_weight_le(weight) ==
    LET iweight == ToInt(weight)
    IN  IF ~iweight.ok THEN FALSE
        ELSE iweight.val >= 25 /\ iweight.val <= 300

check_weight(weight) ==
    LET iweight == ToInt(weight)
    IN  IF ~iweight.ok THEN FALSE
        ELSE iweight.val > 25 /\ iweight.val < 300

check_age_docstring(age) ==
    LET iage == ToInt(age)
    IN  IF ~iage.ok THEN FALSE
        ELSE iage.val >= 18 /\ iage.val <= 100

check_age(age) ==
    LET iage == ToInt(age)
    IN  IF ~iage.ok THEN FALSE
        ELSE iage.val >= 18 /\ iage.val < 110

check_address(address) == ReMatch(AddressPattern, address.chars)

check_occupation(occupation) == ReMatch(NamePattern, occupation.chars)

check_degree(degree) == ReMatch(NamePattern, degree.chars)

check_worldview(worldview) == ReMatch(NamePattern, worldview.chars)

(***************************************************************************)
(* Entry and Validator                                                     *)
(***************************************************************************)
\* the nine keys, in the order Entry.__init__ reads them, which is also the
\* order of the counters of show_summary and of the fields of save_in_json
FieldKeys ==
    <<"email", "weight", "inn", "passport_series", "occupation", "age",
      "academic_degree", "worldview", "address">>

Keys == {FieldKeys[i] : i \in 1..Len(FieldKeys)}

\* Entry(dic): dic[key] raises KeyError for an absent key
Entry_init_default(dic) ==
    [ok |-> TRUE,
     entry |-> [k \in Keys \cup {"curdict"} |->
                   IF k = "curdict" THEN dic
                   ELSE IF k \in DOMAIN dic THEN dic[k] ELSE Str(<<>>)]]

Entry_init(dic) ==
    IF \E i \in 1..Len(FieldKeys) : FieldKeys[i] \notin DOMAIN dic
    THEN [ok |-> FALSE, entry |-> <<>>]
    ELSE [ok |-> TRUE,
          entry |-> [k \in Keys \cup {"curdict"} |->
                        IF k = "curdict" THEN dic ELSE dic[k]]]

\* Validator(entries): the loop stops at the first Entry that raises
RECURSIVE Validator_init_from(_, _, _)
Validator_init_from(dics, i, acc) ==
    IF i > Len(dics) THEN [ok |-> TRUE, entries |-> acc]
    ELSE LET e == Entry_init(dics[i])
         IN  IF ~e.ok THEN [ok |-> FALSE, entries |-> <<>>]
             ELSE Validator_init_from(dics, i + 1, Append(acc, e.entry))

Validator_init(dics) == Validator_init_from(dics, 1, <<>>)

parse_entry_inn_last(entry) ==
    IF ~check_email(entry.email) THEN <<"email">>
    ELSE IF ~check_passport(entry.passport_series) THEN <<"passport_series">>
    ELSE IF ~check_weight(entry.weight) THEN <<"weight">>
    ELSE IF ~check_age(entry.age) THEN <<"age">>
    ELSE IF ~check_address(entry.address) THEN <<"address">>
    ELSE IF ~check_occupation(entry.occupation) THEN <<"occupation">>
    ELSE IF ~check_degree(entry.academic_degree) THEN <<"academic_degree">>
    ELSE IF ~check_worldview(entry.worldview) THEN <<"worldview">>
    ELSE IF ~check_inn(entry.inn) THEN <<"inn">>
    ELSE <<>>

parse_entry(entry) ==
    IF ~check_email(entry.email) THEN <<"email">>
    ELSE IF ~check_inn(entry.inn) THEN <<"inn">>
    ELSE IF ~check_passport(entry.passport_series) THEN <<"passport_series">>
    ELSE IF ~check_weight(entry.weight) THEN <<"weight">>
    ELSE IF ~check_age(entry.age) THEN <<"age">>
    ELSE IF ~check_address(entry.address) THEN <<"address">>
    ELSE IF ~check_occupation(entry.occupation) THEN <<"occupation">>
    ELSE IF ~check_degree(entry.academic_degree) THEN <<"academic_degree">>
    ELSE IF ~check_worldview(entry.worldview) THEN <<"worldview">>
    ELSE <<>>

RECURSIVE parse_from(_, _, _, _)
parse_from(es, i, illegal, legal) ==
    IF i > Len(es) THEN [illegal |-> illegal, legal |-> legal]
    ELSE LET illkeys == parse_entry(es[i])
         IN  IF Len(illkeys) # 0
             THEN parse_from(es, i + 1, Append(illegal, illkeys), legal)
             ELSE parse_from(es, i + 1, illegal, Append(legal, es[i]))

RECURSIVE parse_from_prepend(_, _, _, _)
parse_from_prepend(es, i, illegal, legal) ==
    IF i > Len(es) THEN [illegal |-> illegal, legal |-> legal]
    ELSE LET illkeys == parse_entry(es[i])
         IN  IF Len(illkeys) # 0
             THEN parse_from_prepend(es, i + 1, <<illkeys>> \o illegal, legal)
             ELSE parse_from_prepend(es, i + 1, illegal, <<es[i]>> \o legal)

parse_prepend(es) == parse_from_prepend(es, 1, <<>>, <<>>)

parse(es) == parse_from(es, 1, <<>>, <<>>)

(***************************************************************************)
(* show_summary                                                            *)
(***************************************************************************)
\* '%d' % n and str(n)
RECURSIVE Dec(_)
Dec(n) ==
    IF n < 0 THEN "-" \o Dec(0 - n)
    ELSE IF n < 10
         THEN <<"0", "1", "2", "3", "4", "5", "6", "7", "8", "9">>[n + 1]
    ELSE Dec(n \div 10) \o Dec(n % 10)

ZeroCounts == [k \in Keys |-> 0]

\* the two nested loops over the blamed keys
RECURSIVE CountKeys(_, _, _)
CountKeys(keys, j, acc) ==
    IF j > Len(keys) THEN acc
    ELSE CountKeys(keys, j + 1,
                   [all |-> acc.all + 1,
                    by |-> [acc.by EXCEPT ![keys[j]] = @ + 1]])

RECURSIVE CountFrom(_, _, _)
CountFrom(result, i, acc) ==
    IF i > Len(result) THEN acc
    ELSE CountFrom(result, i + 1, CountKeys(result[i], 1, acc))

RECURSIVE CountKeysSet(_, _, _)
CountKeysSet(keys, j, acc) ==
    IF j > Len(keys) THEN acc
    ELSE CountKeysSet(keys, j + 1,
                      [all |-> acc.all + 1,
                       by |-> [acc.by EXCEPT ![keys[j]] = 1]])

RECURSIVE CountFromSet(_, _, _)
CountFromSet(result, i, acc) ==
    IF i > Len(result) THEN acc
    ELSE CountFromSet(result, i + 1, CountKeysSet(result[i], 1, acc))

CountErrors_assign(result) ==
    CountFromSet(result, 1, [all |-> 0, by |-> ZeroCounts])

CountErrors(result) == CountFrom(result, 1, [all |-> 0, by |-> ZeroCounts])

\* the text of the two prompts, transliterated
TotalLabel == "Vsego oshibok: "
TypesHeader == "Kolichestvo oshibok po tipam: "

FieldLines_reversed(by) ==
    [i \in 1..Len(FieldKeys) |->
        FieldKeys[Len(FieldKeys) + 1 - i] \o ": "
            \o Dec(by[FieldKeys[Len(FieldKeys) + 1 - i]])]

\* errors_count.items(): the keys in the order the dict literal lists them
FieldLines(by) ==
    [i \in 1..Len(FieldKeys) |-> FieldKeys[i] \o ": " \o Dec(by[FieldKeys[i]])]

\* the lines show_summary puts on its sink: stdout for filename '' (print
\* ends each text with a newline), the file otherwise
show_summary(result, filename) ==
    LET c == CountErrors(result)
    IN  [all_errors_count |-> c.all,
         errors_count |-> c.by,
         lines |->
            IF filename = ""
            THEN <<"", TotalLabel \o Dec(c.all), "", TypesHeader>>
                     \o FieldLines(c.by)
            ELSE <<TotalLabel \o Dec(c.all)>> \o FieldLines(c.by)]

(***************************************************************************)
(* save_in_json                                                            *)
(***************************************************************************)
RECURSIVE Join(_)
Join(s) == IF s = <<>> THEN "" ELSE Head(s) \o Join(Tail(s))

\* "%s" of a str
FormatS(x) == [ok |-> TRUE, text |-> "\"" \o Join(x.chars) \o "\""]

\* %d of an int; of a str it raises TypeError
FormatD(x) ==
    IF x.kind = "int" THEN [ok |-> TRUE, text |-> Dec(x.n)]
    ELSE [ok |-> FALSE, text |-> ""]

FormatField(entry, k) ==
    IF k \in {"weight", "age"} THEN FormatD(entry[k]) ELSE FormatS(entry[k])

\* one object of the dump: the nine fields in the order of the template
FormatEntry(entry) ==
    [ok |-> \A i \in 1..Len(FieldKeys) : FormatField(entry, FieldKeys[i]).ok,
     text |-> [i \in 1..Len(FieldKeys) |->
                  <<FieldKeys[i], FormatField(entry, FieldKeys[i]).text>>]]

\* what is written to the file, and whether the function returned
RECURSIVE save_from(_, _, _)
save_from(records, i, written) ==
    IF i > Len(records)
    THEN [ok |-> TRUE, written |-> Append(written, "\n]")]
    ELSE LET o == FormatEntry(records[i])
         IN  IF ~o.ok THEN [ok |-> FALSE, written |-> written]
             ELSE save_from(records, i + 1, Append(written, o.text))

save_in_json(records) == save_from(records, 1, <<"[">>)

Unopened == [opened |-> FALSE, written |-> <<>>]

(***************************************************************************)
(* Calls of one field check on one text: the argument is any text over a   *)
(* small alphabet, up to a bounded length.                                 *)
(***************************************************************************)
Texts(alphabet, n) == UNION {[1..k -> alphabet] : k \in 0..n}

NumAlphabet ==
    {"0", "1", "2", "3", "5", "6", "7", "8", "9", "-", "+", " ", "_", "a"}
EmailAlphabet == {"a", "@", ".", ",", " ", "\n"}
AddressAlphabet == {"a", "cyr_ya", "5", " ", ".", "-", "_", "\t", "\n", "!"}

NoCall == [fn |-> "none", val |-> FALSE]

\* the script is not running: only a function of the module is called
ScriptIdle ==
    /\ pc = "idle"
    /\ data = <<>>
    /\ output_file = ""
    /\ entries = <<>>
    /\ illegal_entries = <<>>
    /\ legal_entries = <<>>
    /\ all_errors_count = 0
    /\ errors_count = ZeroCounts
    /\ stdout = <<>>
    /\ summary_file = Unopened
    /\ valid_file = Unopened
    /\ err = "none"

scriptVars == <<pc, data, output_file, entries, illegal_entries,
                legal_entries, all_errors_count, errors_count, stdout,
                summary_file, valid_file, err>>

Call(fn, val) ==
    /\ ret' = [fn |-> fn, val |-> val]
    /\ UNCHANGED <<scriptVars, arg>>

CallCheckWeight == Call("check_weight", check_weight(arg))
CallCheckAge == Call("check_age", check_age(arg))
CallCheckEmail == Call("check_email", check_email(arg))
CallCheckAddress == Call("check_address", check_address(arg))

InitNum ==
    /\ ScriptIdle
    /\ arg \in {Str(s) : s \in Texts(NumAlphabet, MaxNumLen)}
    /\ ret = NoCall
NextNum == CallCheckWeight \/ CallCheckAge
SpecNum == InitNum /\ [][NextNum]_vars

InitEmail ==
    /\ ScriptIdle
    /\ arg \in {Str(s) : s \in Texts(EmailAlphabet, MaxEmailLen)}
    /\ ret = NoCall
NextEmail == CallCheckEmail
SpecEmail == InitEmail /\ [][NextEmail]_vars

InitAddress ==
    /\ ScriptIdle
    /\ arg \in {Str(s) : s \in Texts(AddressAlphabet, MaxAddrLen)}
    /\ ret = NoCall
NextAddress == CallCheckAddress
SpecAddress == InitAddress /\ [][NextAddress]_vars

Count(s, c) == Cardinality({i \in 1..Len(s) : s[i] = c})

ClaimedEmailShape(s) ==
    /\ Count(s, ",") = 0
    /\ \A i \in 1..(Len(s) - 1) : ~(s[i] = "." /\ s[i + 1] = ".")
    /\ \A i \in 1..Len(s) : ~IsSpace(s[i])
    /\ Count(s, "@") = 1
    /\ \E p \in 1..Len(s) :
          /\ s[p] = "@"
          /\ p > 1
          /\ \E q \in (p + 2)..(Len(s) - 2) :
                /\ s[q] = "."
                /\ \A i \in (q + 1)..Len(s) : s[i] # "."
                /\ s[p + 1] # "."

C6_EmailShape ==
    (ret.fn = "check_email" /\ ret.val) => ClaimedEmailShape(arg.chars)

(***************************************************************************)
(* C7.  check_address accepts a text exactly when it is a (possibly empty) *)
(* prefix of Latin letters, Cyrillic letters, digits, spaces, periods and  *)
(* hyphens, followed by one space and one or more digits.                  *)
(***************************************************************************)
ClaimedAddressShape(s) ==
    \E p \in 1..(Len(s) - 1) :
        /\ s[p] = " "
        /\ \A i \in 1..(p - 1) :
              s[i] \in LatinLower \cup LatinUpper \cup CyrRange
                       \cup CyrOutside \cup AsciiDigits \cup {" ", ".", "-"}
        /\ \A i \in (p + 1)..Len(s) : s[i] \in AsciiDigits

C7_AddressShape ==
    ret.fn = "check_address" => ret.val = ClaimedAddressShape(arg.chars)

(***************************************************************************)
(* Sample field values: for every field one value its check accepts and    *)
(* one it rejects; weight and age also as the ints json.load yields for    *)
(* JSON numbers.                                                           *)
(***************************************************************************)
GoodValue ==
    [email |-> Str(<<"a", "@", "b", ".", "c", "o">>),
     weight |-> Str(<<"2", "6">>),
     inn |-> Str(<<"1", "2", "3", "4", "5", "6", "7", "8", "9", "0", "1", "2">>),
     passport_series |-> Str(<<"1", "2", " ", "3", "4">>),
     occupation |-> Str(<<"a", "-", "b">>),
     age |-> Str(<<"1", "8">>),
     academic_degree |-> Str(<<"Z", " ", "cyr_ya">>),
     worldview |-> Str(<<"c">>),
     address |-> Str(<<"a", " ", "5">>)]

BadValue ==
    [email |-> Str(<<"a", "@", "b">>),
     weight |-> Str(<<"2", "5">>),
     inn |-> Str(<<"1", "2", "3", "4", "5">>),
     passport_series |-> Str(<<"1", "2", "3", "4">>),
     occupation |-> Str(<<>>),
     age |-> Str(<<"1", "7">>),
     academic_degree |-> Str(<<"5">>),
     worldview |-> Str(<<"cyr_yo">>),
     address |-> Str(<<"a">>)]

\* the mapping whose fields of B hold the rejected value, the others the
\* accepted one
Rec(B) == [k \in Keys |-> IF k \in B THEN BadValue[k] ELSE GoodValue[k]]

WithInts(dic, w, a) == [dic EXCEPT !["weight"] = IntV(w), !["age"] = IntV(a)]

Without(dic, k) == [j \in (DOMAIN dic) \ {k} |-> dic[j]]

BadSets ==
    {{}} \cup {{k} : k \in Keys}
         \cup {{"email", "inn"}, {"weight", "age"},
               {"worldview", "passport_series"}, Keys}

\* the mappings a batch of the input file is made of
Pool ==
    {Rec(B) : B \in BadSets}
        \cup {WithInts(Rec({}), 26, 18), WithInts(Rec({"address"}), 299, 109),
              WithInts(Rec({}), 300, 18)}
        \cup {Without(Rec({}), "email"), Without(Rec({}), "address"),
              Without(Rec({"email"}), "worldview")}

\* every combination of an accepted or rejected value per field
AllCombinations ==
    {WithInts(Rec(B), 26, 18) : B \in SUBSET (Keys \ {"weight", "age"})}
        \cup {Rec(B) : B \in SUBSET Keys}
        \cup {[Rec(B) EXCEPT !["weight"] = IntV(25)] : B \in SUBSET Keys}

(***************************************************************************)
(* The script: Validator(data), val.parse(), show_summary(res[0],          *)
(* output_file), save_in_json(res[1], 'valid_data.txt').                   *)
(***************************************************************************)
Init ==
    /\ pc = "construct"
    /\ data \in UNION {[1..n -> Pool] : n \in 0..MaxLen}
    /\ output_file \in {"", "21_result.txt"}
    /\ entries = <<>>
    /\ illegal_entries = <<>>
    /\ legal_entries = <<>>
    /\ all_errors_count = 0
    /\ errors_count = ZeroCounts
    /\ stdout = <<>>
    /\ summary_file = Unopened
    /\ valid_file = Unopened
    /\ err = "none"
    /\ arg = Str(<<>>)
    /\ ret = NoCall

Construct ==
    /\ pc = "construct"
    /\ LET v == Validator_init(data)
       IN  IF v.ok
           THEN /\ entries' = v.entries
                /\ pc' = "parse"
                /\ err' = err
           ELSE /\ entries' = entries
                /\ pc' = "crashed"
                /\ err' = "KeyError"
    /\ UNCHANGED <<data, output_file, illegal_entries, legal_entries,
                   all_errors_count, errors_count, stdout, summary_file,
                   valid_file, arg, ret>>

Parse ==
    /\ pc = "parse"
    /\ LET res == parse(entries)
       IN  /\ illegal_entries' = res.illegal
           /\ legal_entries' = res.legal
    /\ pc' = "summary"
    /\ UNCHANGED <<data, output_file, entries, all_errors_count, errors_count,
                   stdout, summary_file, valid_file, err, arg, ret>>

ShowSummary ==
    /\ pc = "summary"
    /\ LET s == show_summary(illegal_entries, output_file)
       IN  /\ all_errors_count' = s.all_errors_count
           /\ errors_count' = s.errors_count
           /\ IF output_file = ""
              THEN /\ stdout' = stdout \o s.lines
                   /\ summary_file' = summary_file
              ELSE /\ summary_file' = [opened |-> TRUE, written |-> s.lines]
                   /\ stdout' = stdout
    /\ pc' = "save"
    /\ UNCHANGED <<data, output_file, entries, illegal_entries, legal_entries,
                   valid_file, err, arg, ret>>

SaveInJson ==
    /\ pc = "save"
    /\ LET r == save_in_json(legal_entries)
       IN  /\ valid_file' = [opened |-> TRUE, written |-> r.written]
           /\ IF r.ok
              THEN pc' = "done" /\ err' = err
              ELSE pc' = "crashed" /\ err' = "TypeError"
    /\ UNCHANGED <<data, output_file, entries, illegal_entries, legal_entries,
                   all_errors_count, errors_count, stdout, summary_file,
                   arg, ret>>

Next == Construct \/ Parse \/ ShowSummary \/ SaveInJson

Spec == Init /\ [][Next]_vars

(***************************************************************************)
(* Calls of parse_entry, and of parse on a batch of one, on an Entry of    *)
(* every combination of accepted and rejected fields.                      *)
(***************************************************************************)
CallParseEntry == Call("parse_entry", parse_entry(arg))
CallParseOne == Call("parse", parse(<<arg>>))

InitEntry ==
    /\ ScriptIdle
    /\ arg \in {Entry_init(dic).entry : dic \in AllCombinations}
    /\ ret = NoCall
NextEntry == CallParseEntry \/ CallParseOne
SpecEntry == InitEntry /\ [][NextEntry]_vars

(***************************************************************************)
(* Vocabulary of the claims about the script.                              *)
(***************************************************************************)
\* the order of the checks, as section 4.3 of the specification lists it
CheckOrder ==
    <<"email", "inn", "passport_series", "weight", "age", "address",
      "occupation", "academic_degree", "worldview">>

FieldHolds(e, k) ==
    CASE k = "email" -> check_email(e.email)
      [] k = "inn" -> check_inn(e.inn)
      [] k = "passport_series" -> check_passport(e.passport_series)
      [] k = "weight" -> check_weight(e.weight)
      [] k = "age" -> check_age(e.age)
      [] k = "address" -> check_address(e.address)
      [] k = "occupation" -> check_occupation(e.occupation)
      [] k = "academic_degree" -> check_degree(e.academic_degree)
      [] k = "worldview" -> check_worldview(e.worldview)

AllNineHold(e) == \A k \in Keys : FieldHolds(e, k)
SomeFieldFails(e) == ~AllNineHold(e)

\* blame is the earliest field of CheckOrder whose predicate fails for e
IsFirstFailing(e, blame) ==
    \E i \in 1..Len(CheckOrder) :
        /\ CheckOrder[i] = blame
        /\ ~FieldHolds(e, blame)
        /\ \A j \in 1..(i - 1) : FieldHolds(e, CheckOrder[j])

HasMissingKey(d) == \E i \in 1..Len(d) : ~(Keys \subseteq DOMAIN d[i])
AllText(d) ==
    \A i \in 1..Len(d) : \A k \in DOMAIN d[i] : d[i][k].kind = "str"

Parsed == pc \in {"summary", "save", "done"} \/ err = "TypeError"
SummaryShown == pc \in {"save", "done"} \/ err = "TypeError"

Blamed(k) == {i \in 1..Len(illegal_entries) : illegal_entries[i] = <<k>>}

RECURSIVE SumCounts(_, _)
SumCounts(by, i) ==
    IF i > Len(FieldKeys) THEN 0 ELSE by[FieldKeys[i]] + SumCounts(by, i + 1)

(***************************************************************************)
(* C1.  parse puts every record in exactly one of the two collections: the *)
(* record itself in the valid list, or a list of exactly one blamed field  *)
(* name in the invalid list; the lengths add up to the length of the       *)
(* input, and each collection keeps the order of the input.                *)
(***************************************************************************)
C1_ParsePartition ==
    Parsed =>
        LET bad == SelectSeq(entries, SomeFieldFails)
        IN  /\ Len(entries) = Len(data)
            /\ Len(legal_entries) + Len(illegal_entries) = Len(data)
            /\ legal_entries = SelectSeq(entries, AllNineHold)
            /\ Len(illegal_entries) = Len(bad)
            /\ \A i \in 1..Len(illegal_entries) :
                  /\ Len(illegal_entries[i]) = 1
                  /\ IsFirstFailing(bad[i], illegal_entries[i][1])

C1_Witness ==
    /\ pc = "summary"
    /\ Len(data) = 2
    /\ Len(legal_entries) = 1
    /\ illegal_entries = <<(<<"address">>)>>

(***************************************************************************)
(* C2.  parse_entry returns the first field, in the order email, inn,      *)
(* passport_series, weight, age, address, occupation, academic_degree,     *)
(* worldview, whose predicate fails, and no field exactly when all nine    *)
(* predicates hold; so a record in the valid output of parse satisfies all *)
(* nine, and an invalid one is blamed for its earliest failing field.      *)
(***************************************************************************)
C2_FirstFailingField ==
    /\ ret.fn = "parse_entry" =>
          /\ (ret.val = <<>>) = AllNineHold(arg)
          /\ ret.val # <<>> =>
                Len(ret.val) = 1 /\ IsFirstFailing(arg, ret.val[1])
    /\ ret.fn = "parse" =>
          /\ \A i \in 1..Len(ret.val.legal) :
                ret.val.legal[i] = arg /\ AllNineHold(arg)
          /\ \A i \in 1..Len(ret.val.illegal) :
                /\ Len(ret.val.illegal[i]) = 1
                /\ IsFirstFailing(arg, ret.val.illegal[i][1])
          /\ Len(ret.val.legal) + Len(ret.val.illegal) = 1

C2_Witness ==
    /\ ret.fn = "parse_entry"
    /\ ret.val = <<"inn">>
    /\ ~check_inn(arg.inn)
    /\ ~check_passport(arg.passport_series)
    /\ ~check_worldview(arg.worldview)

(***************************************************************************)
(* C3.  In the summary of the invalid list parse returned, the grand total *)
(* equals the length of the invalid list, the nine counters sum to the     *)
(* total, and each counter is the number of entries blamed on its field.   *)
(***************************************************************************)
C3_SummaryCounts ==
    SummaryShown =>
        /\ all_errors_count = Len(illegal_entries)
        /\ SumCounts(errors_count, 1) = all_errors_count
        /\ \A k \in Keys : errors_count[k] = Cardinality(Blamed(k))

C3_Witness ==
    /\ SummaryShown
    /\ all_errors_count = 2
    /\ errors_count["email"] = 2

(***************************************************************************)
(* C4.  A missing key in any record of the input is fatal and leaves no    *)
(* partial output: all records are constructed (which fails on the first   *)
(* absent key and does not look at the content) before any record is       *)
(* classified and before either output sink is opened or written.          *)
(***************************************************************************)
C4_MissingKeyFatal ==
    /\ HasMissingKey(data) =>
          /\ pc \in {"construct", "crashed"}
          /\ err \in {"none", "KeyError"}
          /\ entries = <<>> /\ illegal_entries = <<>> /\ legal_entries = <<>>
          /\ stdout = <<>>
          /\ ~summary_file.opened /\ ~valid_file.opened
    /\ err = "KeyError" => HasMissingKey(data)
    /\ (~HasMissingKey(data) /\ pc # "construct") =>
          /\ Len(entries) = Len(data)
          /\ \A i \in 1..Len(data) : entries[i].curdict = data[i]
    /\ (Parsed \/ stdout # <<>> \/ summary_file.opened \/ valid_file.opened)
          => Len(entries) = Len(data)

C4_Witness ==
    /\ pc = "crashed"
    /\ err = "KeyError"
    /\ Len(data) = 2
    /\ DOMAIN data[1] = Keys
    /\ "address" \notin DOMAIN data[2]
    /\ ~valid_file.opened

(***************************************************************************)
(* C5.  For every batch of records whose nine fields are text values,      *)
(* save_in_json writes one object per valid record, in input order, each   *)
(* with the nine fields in the fixed order, weight and age rendered as     *)
(* numbers and the text fields quoted, and the run completes without       *)
(* error.                                                                  *)
(***************************************************************************)
ClaimedObject(e) ==
    [i \in 1..Len(FieldKeys) |->
        <<FieldKeys[i],
          IF FieldKeys[i] \in {"weight", "age"}
          THEN Dec(ToInt(e[FieldKeys[i]]).val)
          ELSE "\"" \o Join(e[FieldKeys[i]].chars) \o "\"">>]

C5_TextRecordsSerialized ==
    (AllText(data) /\ ~HasMissingKey(data)) =>
        /\ pc # "crashed"
        /\ pc = "done" =>
              valid_file.written =
                  <<"[">> \o [i \in 1..Len(legal_entries) |->
                                 ClaimedObject(legal_entries[i])]
                          \o <<"\n]">>

(***************************************************************************)
(* C8.  show_summary produces the same content, the total line followed by *)
(* the nine per-field lines in declaration order, whether it prints to the *)
(* console or writes to a named file.                                      *)
(***************************************************************************)
SummaryOutput == IF output_file = "" THEN stdout ELSE summary_file.written

C8_SameContentOnBothSinks ==
    SummaryShown =>
        SummaryOutput =
            show_summary(illegal_entries,
                         IF output_file = "" THEN "21_result.txt" ELSE "").lines

\* C8 as amended: both sinks carry the same total line and the same nine
\* per-field lines in declaration order; the console output has, besides,
\* an empty line before the total line, and an empty line and a header
\* line between the total line and the per-field lines.
ContentLine(line) == line # "" /\ line # TypesHeader

ExpectedSummary ==
    <<TotalLabel \o Dec(Len(illegal_entries))>>
        \o [i \in 1..Len(FieldKeys) |->
               FieldKeys[i] \o ": " \o Dec(Cardinality(Blamed(FieldKeys[i])))]

C8_SameLinesBesidesConsoleFraming ==
    SummaryShown =>
        /\ SelectSeq(SummaryOutput, ContentLine) = ExpectedSummary
        /\ output_file # "" => SummaryOutput = ExpectedSummary
        /\ output_file = "" =>
              /\ Len(SummaryOutput) = Len(ExpectedSummary) + 3
              /\ SubSeq(SummaryOutput, 1, 4)
                    = <<"", ExpectedSummary[1], "", TypesHeader>>

C8_Witness ==
    /\ SummaryShown
    /\ output_file = ""
    /\ Len(stdout) = 13
    /\ Len(illegal_entries) = 2

=============================================================================
